---- MODULE Spec2Model ----
(***************************************************************************)
(* RxNormClient::find_rxcui (src/src/lib.rs): one HTTP GET against RxNav,  *)
(* one retry after a fixed sleep when the first send fails, then status    *)
(* check, body read, JSON field extraction and integer conversion.         *)
(*                                                                         *)
(* Text is modelled as a sequence of one-character strings, so that the    *)
(* dump / replace / split / trim / parse pipeline of lines 62-71 is        *)
(* computed character by character as the code computes it.                *)
(***************************************************************************)
EXTENDS Integers, Sequences, FiniteSets, TLC

VARIABLES normalize, remote, asks, pc, drug, mode, sent, net, res, elapsed, outcome

vars == <<normalize, remote, asks, pc, drug, mode, sent, net, res, elapsed, outcome>>

(* ---------------------------- bounds ----------------------------------- *)

\* longest idGroup.rxnormId array the remote service answers with
MaxEntries == 2

\* the find_rxcui futures that may be in flight on the one shared client
Calls == {1, 2}

\* drug names a caller may ask for
Drugs == {"vit-c", "aspirin"}

\* HTTP status codes the remote service answers with
Statuses == {200, 300, 503}

(* ------------------------- program constants --------------------------- *)

RETRY_DELAY_SECS == 2

I32_MAX == 2147483647

I32_MIN == -2147483647 - 1

(* ------------------------------ text ----------------------------------- *)

Digits == {"0", "1", "2", "3", "4", "5", "6", "7", "8", "9"}

DigitVal(ch) ==
    CASE ch = "0" -> 0 [] ch = "1" -> 1 [] ch = "2" -> 2 [] ch = "3" -> 3
      [] ch = "4" -> 4 [] ch = "5" -> 5 [] ch = "6" -> 6 [] ch = "7" -> 7
      [] ch = "8" -> 8 [] ch = "9" -> 9

Whitespace == {" "}

Tail2(s, i) == SubSeq(s, i, Len(s))

\* str::replace(&['[', ']', '"'][..], ""): every listed character is deleted
Replace(s, chars) == SelectSeq(s, LAMBDA ch : ch \notin chars)

\* str::split(','): the pieces between separators, empty pieces included;
\* the empty text splits into one empty piece
RECURSIVE Split(_, _)
Split(s, sep) ==
    IF \A i \in 1..Len(s) : s[i] # sep
    THEN <<s>>
    ELSE LET i == CHOOSE k \in 1..Len(s) :
                      s[k] = sep /\ \A j \in 1..(k - 1) : s[j] # sep
         IN  <<SubSeq(s, 1, i - 1)>> \o Split(Tail2(s, i + 1), sep)

\* str::trim(): leading and trailing whitespace removed
RECURSIVE TrimStart(_)
TrimStart(s) ==
    IF s # <<>> /\ Head(s) \in Whitespace THEN TrimStart(Tail(s)) ELSE s

RECURSIVE TrimEnd(_)
TrimEnd(s) ==
    IF s # <<>> /\ s[Len(s)] \in Whitespace
    THEN TrimEnd(SubSeq(s, 1, Len(s) - 1))
    ELSE s

Trim(s) == TrimEnd(TrimStart(s))

ParseErr == [ok |-> FALSE, v |-> 0]

\* accumulation that stops at the largest i32 instead of failing
RECURSIVE ParsePos_Saturating(_, _)
ParsePos_Saturating(s, acc) ==
    IF s = <<>> THEN [ok |-> TRUE, v |-> acc]
    ELSE IF Head(s) \notin Digits THEN ParseErr
    ELSE LET d == DigitVal(Head(s))
         IN  IF acc > (I32_MAX - d) \div 10 THEN ParsePos_Saturating(Tail(s), I32_MAX)
             ELSE ParsePos_Saturating(Tail(s), acc * 10 + d)

\* checked accumulation of the digits of a non-negative i32
RECURSIVE ParsePos(_, _)
ParsePos(s, acc) ==
    IF s = <<>> THEN [ok |-> TRUE, v |-> acc]
    ELSE IF Head(s) \notin Digits THEN ParseErr
    ELSE LET d == DigitVal(Head(s))
         IN  IF acc > (I32_MAX - d) \div 10 THEN ParseErr
             ELSE ParsePos(Tail(s), acc * 10 + d)

\* checked accumulation of the digits of a negative i32 (acc <= 0)
RECURSIVE ParseNeg(_, _)
ParseNeg(s, acc) ==
    IF s = <<>> THEN [ok |-> TRUE, v |-> acc]
    ELSE IF Head(s) \notin Digits THEN ParseErr
    ELSE LET d == DigitVal(Head(s))
         IN  IF acc < (I32_MIN + d + 9) \div 10 THEN ParseErr
             ELSE ParseNeg(Tail(s), acc * 10 - d)

\* <i32 as FromStr>::from_str: an optional single sign, at least one digit,
\* digits only, value inside the 32-bit signed range
ParseI32(s) ==
    IF s = <<>> THEN ParseErr
    ELSE IF Head(s) = "-"
         THEN IF Tail(s) = <<>> THEN ParseErr ELSE ParseNeg(Tail(s), 0)
    ELSE IF Head(s) = "+"
         THEN IF Tail(s) = <<>> THEN ParseErr ELSE ParsePos(Tail(s), 0)
    ELSE ParsePos(s, 0)

(* ------------------------------ JSON ----------------------------------- *)

\* json::JsonValue: Null, a string, an array, or an object (ordered members)
JNull == [t |-> "null", s |-> <<>>, a |-> <<>>, m |-> <<>>]

JStr(s) == [t |-> "str", s |-> s, a |-> <<>>, m |-> <<>>]

JArr(a) == [t |-> "arr", s |-> <<>>, a |-> a, m |-> <<>>]

JObj(m) == [t |-> "obj", s |-> <<>>, a |-> <<>>, m |-> m]

\* JsonValue's Index<&str>: the member's value, Null when the value is not
\* an object or has no such member
Index(v, key) ==
    IF v.t = "obj" /\ \E i \in 1..Len(v.m) : v.m[i][1] = key
    THEN v.m[CHOOSE i \in 1..Len(v.m) : v.m[i][1] = key][2]
    ELSE JNull

\* the string escaping of JsonValue::dump
RECURSIVE Escape(_)
Escape(s) ==
    IF s = <<>> THEN <<>>
    ELSE (IF Head(s) \in {"\"", "\\"} THEN <<"\\", Head(s)>> ELSE <<Head(s)>>)
         \o Escape(Tail(s))

RECURSIVE DumpItems(_)
\* JsonValue::dump: the compact JSON text of a value
RECURSIVE Dump(_)
Dump(v) ==
    CASE v.t = "null" -> <<"n", "u", "l", "l">>
      [] v.t = "str"  -> <<"\"">> \o Escape(v.s) \o <<"\"">>
      [] v.t = "arr"  -> <<"[">> \o DumpItems(v.a) \o <<"]">>

DumpItems(a) ==
    IF a = <<>> THEN <<>>
    ELSE IF Len(a) = 1 THEN Dump(a[1])
    ELSE Dump(a[1]) \o <<",">> \o DumpItems(Tail(a))

(* ------------------------ what the remote answers ---------------------- *)

\* the strings the remote service may put into idGroup.rxnormId
Entries ==
    { <<"1", "1", "5", "1">>,
      <<"7">>,
      <<"a", "b">>,
      <<>>,
      <<"n", "u", "l", "l">>,
      <<"1", ",", "2">>,
      <<"[", "3", "]">>,
      <<"-", "5">>,
      <<"2", "1", "4", "7", "4", "8", "3", "6", "4", "8">> }

RECURSIVE SeqsUpTo(_, _)
SeqsUpTo(S, n) ==
    IF n = 0 THEN {<<>>}
    ELSE LET shorter == SeqsUpTo(S, n - 1)
         IN  shorter \cup {Append(q, x) : q \in {r \in shorter : Len(r) = n - 1}, x \in S}

\* the arrays of strings at idGroup.rxnormId
IdArrays == {JArr([i \in 1..Len(q) |-> JStr(q[i])]) : q \in SeqsUpTo(Entries, MaxEntries)}

\* {"idGroup": {"rxnormId": v}}
DocWith(v) == JObj(<< <<"idGroup", JObj(<< <<"rxnormId", v>> >>)>> >>)

\* the JSON documents: {}, {"idGroup":{}}, {"idGroup":{"rxnormId":null}},
\* {"idGroup":{"rxnormId":[...]}}
Docs ==
    {JObj(<<>>), JObj(<< <<"idGroup", JObj(<<>>)>> >>), DocWith(JNull)}
        \cup {DocWith(a) : a \in IdArrays}

NoBody == [kind |-> "none", doc |-> JNull]

\* a body whose transfer breaks before it is complete
Unreadable == [kind |-> "unreadable", doc |-> JNull]

\* a body that is text but not JSON
Garbage == [kind |-> "garbage", doc |-> JNull]

JsonBody(d) == [kind |-> "json", doc |-> d]

Bodies == {Unreadable, Garbage} \cup {JsonBody(d) : d \in Docs}

NoRes == [status |-> 0, body |-> NoBody]

\* what one network attempt delivers: a transport error or a response
TransportFailure == [ok |-> FALSE, res |-> NoRes]

Delivered(r) == [ok |-> TRUE, res |-> r]

(* --------------------------- find_rxcui -------------------------------- *)

Pending == [tag |-> "pending", ids |-> <<>>, msg |-> ""]

Found(ids) == [tag |-> "Found", ids |-> ids, msg |-> ""]

NotFound == [tag |-> "NotFound", ids |-> <<>>, msg |-> ""]

Failure(msg) == [tag |-> "Err", ids |-> <<>>, msg |-> msg]

\* an unwrap() on an Err value: the task panics instead of returning
Panic(where) == [tag |-> "panic", ids |-> <<>>, msg |-> where]

RemoteError == Failure("RxNav returned an error")

\* the search mode does not follow the normalize flag
Mode_Always2(n) == "2"

\* let mode = if self.normalize { "2" } else { "0" }
Mode(n) == IF n THEN "2" ELSE "0"

\* the GET request make_call builds
MakeCall(d, m) == [name |-> d, search |-> m]

\* StatusCode::is_success
IsSuccess(status) == status >= 200 /\ status < 300

\* rxnorm["idGroup"]["rxnormId"].dump().replace(&['[', ']', '\"'][..], "")
IdText(doc) == Replace(Dump(Index(Index(doc, "idGroup"), "rxnormId")), {"[", "]", "\""})

\* a fragment equal to an earlier one is left out
Fragments_Dedup(text) ==
    LET pieces  == Split(text, ",")
        trimmed == [i \in 1..Len(pieces) |-> Trim(pieces[i])]
        kept    == {i \in 1..Len(trimmed) :
                        trimmed[i] # <<>> /\ \A j \in 1..(i - 1) : trimmed[j] # trimmed[i]}
        Pick[i \in 0..Len(trimmed)] ==
            IF i = 0 THEN <<>>
            ELSE IF i \in kept THEN Append(Pick[i - 1], trimmed[i]) ELSE Pick[i - 1]
    IN  Pick[Len(trimmed)]

\* result.split(',').map(|s| s.trim()).filter(|s| !s.is_empty())
Fragments(text) ==
    LET pieces  == Split(text, ",")
        trimmed == [i \in 1..Len(pieces) |-> Trim(pieces[i])]
    IN  SelectSeq(trimmed, LAMBDA f : f # <<>>)

\* .map(|s| s.parse().unwrap()).collect() and the two returns around it
Collect(text) ==
    IF text # <<"n", "u", "l", "l">>
    THEN LET frags  == Fragments(text)
             parsed == [i \in 1..Len(frags) |-> ParseI32(frags[i])]
         IN  IF \E i \in 1..Len(parsed) : ~parsed[i].ok
             THEN Panic("parse int")
             ELSE Found([i \in 1..Len(parsed) |-> parsed[i].v])
    ELSE NotFound

\* the body is parsed before the status is looked at
Finish_ParseFirst(r) ==
    IF r.body.kind = "unreadable" THEN Panic("text")
    ELSE IF r.body.kind = "garbage" THEN Panic("json")
    ELSE LET parsed == Collect(IdText(r.body.doc))
         IN  IF parsed.tag = "panic" THEN parsed
             ELSE IF IsSuccess(r.status) THEN parsed ELSE RemoteError

\* lines 58-77: what the call ends with once it holds the response r
Finish(r) ==
    IF r.body.kind = "unreadable" THEN Panic("text")
    ELSE IF IsSuccess(r.status)
         THEN IF r.body.kind = "garbage" THEN Panic("json")
              ELSE Collect(IdText(r.body.doc))
         ELSE RemoteError

PcOf(o) == IF o.tag = "panic" THEN "panicked" ELSE "returned"

(* ------------------------------ state ---------------------------------- *)

TypeOK ==
    /\ normalize \in BOOLEAN
    /\ remote.fixed \in BOOLEAN
    /\ remote.body.kind \in {"none", "unreadable", "garbage", "json"}
    /\ asks \in [Calls -> SUBSET Drugs]
    /\ pc \in [Calls -> {"idle", "send1", "sleeping", "send2", "reading",
                         "returned", "panicked", "dropped"}]
    /\ drug \in [Calls -> Drugs \cup {""}]
    /\ mode \in [Calls -> {"", "0", "2"}]
    /\ \A c \in Calls : Len(sent[c]) \in 0..2 /\ Len(net[c]) \in 0..2
    /\ elapsed \in [Calls -> 0..RETRY_DELAY_SECS]

Quiet ==
    /\ pc = [c \in Calls |-> "idle"]
    /\ drug = [c \in Calls |-> ""]
    /\ mode = [c \in Calls |-> ""]
    /\ sent = [c \in Calls |-> <<>>]
    /\ net = [c \in Calls |-> <<>>]
    /\ res = [c \in Calls |-> NoRes]
    /\ elapsed = [c \in Calls |-> 0]
    /\ outcome = [c \in Calls |-> Pending]

\* RxNormClient::new; one caller, who may ask for any drug, and a remote
\* whose answer may be any body
Init ==
    /\ normalize \in BOOLEAN
    /\ remote = [fixed |-> FALSE, body |-> NoBody]
    /\ asks = [c \in Calls |-> IF c = 1 THEN Drugs ELSE {}]
    /\ Quiet

\* RxNormClient::new; every caller asks for the same drug, and the remote
\* answers every request with the same body
InitPair ==
    /\ normalize \in BOOLEAN
    /\ \E b \in Bodies : remote = [fixed |-> TRUE, body |-> b]
    /\ \E d \in Drugs : asks = [c \in Calls |-> {d}]
    /\ Quiet

(* ----------------------------- actions --------------------------------- *)

\* the responses the remote can give
Responses ==
    {[status |-> st, body |-> b] :
        st \in Statuses, b \in IF remote.fixed THEN {remote.body} ELSE Bodies}

\* lines 42-44: the call starts, derives mode and sends the first request
Call(c, d) ==
    /\ d \in asks[c]
    /\ pc[c] = "idle"
    /\ drug' = [drug EXCEPT ![c] = d]
    /\ mode' = [mode EXCEPT ![c] = Mode(normalize)]
    /\ sent' = [sent EXCEPT ![c] = Append(@, MakeCall(d, Mode(normalize)))]
    /\ pc' = [pc EXCEPT ![c] = "send1"]
    /\ UNCHANGED <<normalize, remote, asks, net, res, elapsed, outcome>>

\* line 46: the first send yields a response
FirstOk(c) ==
    /\ pc[c] = "send1"
    /\ \E r \in Responses :
          /\ net' = [net EXCEPT ![c] = Append(@, Delivered(r))]
          /\ res' = [res EXCEPT ![c] = r]
    /\ pc' = [pc EXCEPT ![c] = "reading"]
    /\ UNCHANGED <<normalize, remote, asks, drug, mode, sent, elapsed, outcome>>

\* lines 47-52: the first send fails; the call prints and starts to sleep
FirstErr(c) ==
    /\ pc[c] = "send1"
    /\ net' = [net EXCEPT ![c] = Append(@, TransportFailure)]
    /\ elapsed' = [elapsed EXCEPT ![c] = 0]
    /\ pc' = [pc EXCEPT ![c] = "sleeping"]
    /\ UNCHANGED <<normalize, remote, asks, drug, mode, sent, res, outcome>>

\* a second of the sleep goes by
Tick(c) ==
    /\ pc[c] = "sleeping"
    /\ elapsed[c] < RETRY_DELAY_SECS
    /\ elapsed' = [elapsed EXCEPT ![c] = @ + 1]
    /\ UNCHANGED <<normalize, remote, asks, pc, drug, mode, sent, net, res, outcome>>

\* the request is sent again without waiting for the sleep to end
Wake_Early(c) ==
    /\ pc[c] = "sleeping"
    /\ sent' = [sent EXCEPT ![c] = Append(@, MakeCall(drug[c], mode[c]))]
    /\ pc' = [pc EXCEPT ![c] = "send2"]
    /\ UNCHANGED <<normalize, remote, asks, drug, mode, net, res, elapsed, outcome>>

\* lines 52-53: the sleep is over; the call sends the request again
Wake(c) ==
    /\ pc[c] = "sleeping"
    /\ elapsed[c] = RETRY_DELAY_SECS
    /\ sent' = [sent EXCEPT ![c] = Append(@, MakeCall(drug[c], mode[c]))]
    /\ pc' = [pc EXCEPT ![c] = "send2"]
    /\ UNCHANGED <<normalize, remote, asks, drug, mode, net, res, elapsed, outcome>>

\* the response to the retry is taken for "no match" without being read
RetryOk_GivesUp(c) ==
    /\ pc[c] = "send2"
    /\ \E r \in Responses :
          /\ net' = [net EXCEPT ![c] = Append(@, Delivered(r))]
          /\ res' = [res EXCEPT ![c] = r]
    /\ outcome' = [outcome EXCEPT ![c] = NotFound]
    /\ pc' = [pc EXCEPT ![c] = "returned"]
    /\ UNCHANGED <<normalize, remote, asks, drug, mode, sent, elapsed>>

\* lines 53-55: the second send yields a response
RetryOk(c) ==
    /\ pc[c] = "send2"
    /\ \E r \in Responses :
          /\ net' = [net EXCEPT ![c] = Append(@, Delivered(r))]
          /\ res' = [res EXCEPT ![c] = r]
    /\ pc' = [pc EXCEPT ![c] = "reading"]
    /\ UNCHANGED <<normalize, remote, asks, drug, mode, sent, elapsed, outcome>>

\* a failed retry goes back to sleep and tries again
RetryErr_Again(c) ==
    /\ pc[c] = "send2"
    /\ net' = [net EXCEPT ![c] = Append(@, TransportFailure)]
    /\ elapsed' = [elapsed EXCEPT ![c] = 0]
    /\ pc' = [pc EXCEPT ![c] = "sleeping"]
    /\ UNCHANGED <<normalize, remote, asks, drug, mode, sent, res, outcome>>

\* lines 53-55: the second send fails and unwrap() panics
RetryErr(c) ==
    /\ pc[c] = "send2"
    /\ net' = [net EXCEPT ![c] = Append(@, TransportFailure)]
    /\ outcome' = [outcome EXCEPT ![c] = Panic("send")]
    /\ pc' = [pc EXCEPT ![c] = "panicked"]
    /\ UNCHANGED <<normalize, remote, asks, drug, mode, sent, res, elapsed>>

\* the response is kept in a slot the calls share: a call reads the response
\* another call is holding
ReadBody_SharedSlot(c) ==
    LET holder == IF \E o \in Calls \ {c} : pc[o] = "reading"
                  THEN CHOOSE o \in Calls \ {c} : pc[o] = "reading"
                  ELSE c
    IN  /\ pc[c] = "reading"
        /\ outcome' = [outcome EXCEPT ![c] = Finish(res[holder])]
        /\ pc' = [pc EXCEPT ![c] = PcOf(Finish(res[holder]))]
        /\ UNCHANGED <<normalize, remote, asks, drug, mode, sent, net, res, elapsed>>

\* lines 58-77: status, body text, extraction, and the end of the call
ReadBody(c) ==
    /\ pc[c] = "reading"
    /\ outcome' = [outcome EXCEPT ![c] = Finish(res[c])]
    /\ pc' = [pc EXCEPT ![c] = PcOf(Finish(res[c]))]
    /\ UNCHANGED <<normalize, remote, asks, drug, mode, sent, net, res, elapsed>>

Next ==
    \/ \E c \in Calls, d \in Drugs : Call(c, d)
    \/ \E c \in Calls : FirstOk(c)
    \/ \E c \in Calls : FirstErr(c)
    \/ \E c \in Calls : Tick(c)
    \/ \E c \in Calls : Wake(c)
    \/ \E c \in Calls : RetryOk(c)
    \/ \E c \in Calls : RetryErr(c)
    \/ \E c \in Calls : ReadBody(c)

Spec == Init /\ [][Next]_vars

\* the await points of find_rxcui: the two sends (lines 44 and 54), the
\* sleep (line 52) and the body read (line 59)
Suspended(c) == pc[c] \in {"send1", "sleeping", "send2", "reading"}

\* the caller drops the future of the call while it is suspended: the
\* pending send, sleep or body read is dropped with it, nothing more of the
\* call runs and nothing is returned
Drop(c) ==
    /\ Suspended(c)
    /\ pc' = [pc EXCEPT ![c] = "dropped"]
    /\ UNCHANGED <<normalize, remote, asks, drug, mode, sent, net, res, elapsed, outcome>>

NextCancel ==
    \/ Next
    \/ \E c \in Calls : Drop(c)

\* the calls of Spec, with callers that may cancel
SpecCancel == Init /\ [][NextCancel]_vars

SpecPair == InitPair /\ [][Next]_vars

(* ------------------------- vocabulary of the claims -------------------- *)

Terminated(c) == pc[c] \in {"returned", "panicked"}

\* the first attempt of c ended without an HTTP response
FirstFailed(c) == Len(net[c]) >= 1 /\ ~net[c][1].ok

\* both attempts of c ended without an HTTP response
BothFailed(c) == Len(net[c]) = 2 /\ ~net[c][1].ok /\ ~net[c][2].ok

\* c holds an HTTP response
HasResponse(c) == Len(net[c]) >= 1 /\ net[c][Len(net[c])].ok

\* the response c holds, as the network delivered it
Response(c) == net[c][Len(net[c])].res

\* the value a JSON body carries at idGroup.rxnormId, by the document's shape
RxnormIdOf(doc) ==
    IF doc.t = "obj" /\ \E i \in 1..Len(doc.m) : doc.m[i][1] = "idGroup"
    THEN LET g == doc.m[CHOOSE i \in 1..Len(doc.m) : doc.m[i][1] = "idGroup"][2]
         IN  IF g.t = "obj" /\ \E j \in 1..Len(g.m) : g.m[j][1] = "rxnormId"
             THEN [present |-> TRUE,
                   v |-> g.m[CHOOSE j \in 1..Len(g.m) : g.m[j][1] = "rxnormId"][2]]
             ELSE [present |-> FALSE, v |-> JNull]
    ELSE [present |-> FALSE, v |-> JNull]

\* c holds a 2xx response with a JSON body
Has2xxJson(c) ==
    HasResponse(c) /\ IsSuccess(Response(c).status) /\ Response(c).body.kind = "json"

\* idGroup.rxnormId is missing, null or []
Absent(doc) ==
    \/ ~RxnormIdOf(doc).present
    \/ RxnormIdOf(doc).v.t = "null"
    \/ RxnormIdOf(doc).v.t = "arr" /\ RxnormIdOf(doc).v.a = <<>>

\* idGroup.rxnormId is a non-empty array
NonEmptyArray(doc) ==
    RxnormIdOf(doc).present /\ RxnormIdOf(doc).v.t = "arr" /\ RxnormIdOf(doc).v.a # <<>>

\* a decimal integer: an optional sign, then one digit or more, nothing else
IsDecimal(s) ==
    LET d == IF s # <<>> /\ Head(s) \in {"+", "-"} THEN Tail(s) ELSE s
    IN  d # <<>> /\ \A i \in 1..Len(d) : d[i] \in Digits

\* some entry of the array is not a decimal integer
HasBadEntry(doc) ==
    NonEmptyArray(doc)
        /\ \E i \in 1..Len(RxnormIdOf(doc).v.a) : ~IsDecimal(RxnormIdOf(doc).v.a[i].s)

(* ------------------------------- claims -------------------------------- *)

\* C1: when the first attempt and the retry both fail at the transport
\* level, the call returns an error value to its caller and has sent exactly
\* two requests.
C1_DoubleTransportFailureIsReturned ==
    \A c \in Calls :
        BothFailed(c) =>
            /\ pc[c] = "returned"
            /\ outcome[c].tag = "Err"
            /\ Len(sent[c]) = 2

\* C2: a 2xx response whose idGroup.rxnormId is missing, null or [] ends the
\* call with NotFound, never with an empty Found list.
C2_AbsentIsNotFound ==
    \A c \in Calls :
        (Terminated(c) /\ Has2xxJson(c) /\ Absent(Response(c).body.doc))
            => outcome[c] = NotFound

\* C3: a 2xx response whose non-empty idGroup.rxnormId array holds an entry
\* that is not a decimal integer never ends the call with Found or NotFound.
C3_BadEntryFails ==
    \A c \in Calls :
        (Terminated(c) /\ Has2xxJson(c) /\ HasBadEntry(Response(c).body.doc))
            => outcome[c].tag \notin {"Found", "NotFound"}

\* the call of c has failed: both sends failed, the body could not be read,
\* the status is not 2xx, the body is not JSON, or an entry is not an integer
Failing(c) ==
    \/ BothFailed(c)
    \/ /\ HasResponse(c)
       /\ \/ Response(c).body.kind = "unreadable"
          \/ ~IsSuccess(Response(c).status)
          \/ Response(c).body.kind = "garbage"
          \/ Response(c).body.kind = "json" /\ HasBadEntry(Response(c).body.doc)

\* C4: every failing call ends by returning an error value: it never ends in
\* a panic and never in a Found or NotFound result.
C4_FailuresAreReturned ==
    \A c \in Calls :
        /\ pc[c] # "panicked"
        /\ (Terminated(c) /\ Failing(c)) => outcome[c].tag = "Err"

\* C5: once the call holds a non-2xx response no further request is sent,
\* and the call ends with RemoteError.
C5_Non2xxIsRemoteError ==
    \A c \in Calls :
        (HasResponse(c) /\ ~IsSuccess(Response(c).status)) =>
            /\ Len(sent[c]) = Len(net[c])
            /\ Terminated(c) => (pc[c] = "returned" /\ outcome[c] = RemoteError)

\* c got a response on its first attempt
Direct(c) == Len(net[c]) = 1 /\ net[c][1].ok

\* c got a response on the retry, after a failed first attempt
Retried(c) == Len(net[c]) = 2 /\ ~net[c][1].ok /\ net[c][2].ok

\* c1 was answered directly and c2 on the retry, both with the same 2xx
\* response that has a JSON body, and both calls are over
SameAnswerDirectAndRetried(c1, c2) ==
    /\ Terminated(c1) /\ Direct(c1)
    /\ Terminated(c2) /\ Retried(c2)
    /\ Response(c1) = Response(c2)
    /\ IsSuccess(Response(c1).status)
    /\ Response(c1).body.kind = "json"

\* C6: for every 2xx response R with a JSON body, a call that gets R on the
\* retry ends exactly as a call that gets R on its first attempt.
C6_RetryThenSucceed ==
    \A c1, c2 \in Calls :
        SameAnswerDirectAndRetried(c1, c2)
            => (outcome[c1] = outcome[c2] /\ pc[c1] = pc[c2])

C6_Witness ==
    \E c1, c2 \in Calls :
        /\ SameAnswerDirectAndRetried(c1, c2)
        /\ outcome[c2].tag = "Found" /\ Len(outcome[c2].ids) = 2

\* C7: a call makes at most two network attempts, and a second one only
\* after the first failed at the transport level.
C7_AtMostTwoAttempts ==
    \A c \in Calls :
        /\ Len(sent[c]) <= 2
        /\ Len(sent[c]) = 2 => FirstFailed(c)
        /\ Terminated(c) => Len(sent[c]) \in {1, 2}

C7_Witness ==
    \E c \in Calls : Terminated(c) /\ Len(sent[c]) = 2 /\ HasResponse(c)

\* C8: after a first-attempt transport failure the retry request is sent
\* only when the whole delay has elapsed, it is sent once, and the call does
\* not end without it.
C8_RetryAfterDelay ==
    \A c \in Calls :
        /\ Len(sent[c]) >= 2 => (FirstFailed(c) /\ elapsed[c] = RETRY_DELAY_SECS)
        /\ FirstFailed(c) => Len(sent[c]) <= 2
        /\ (Terminated(c) /\ FirstFailed(c)) => Len(sent[c]) = 2

C8_Witness ==
    \E c \in Calls :
        /\ pc[c] = "send2" /\ FirstFailed(c)
        /\ elapsed[c] = RETRY_DELAY_SECS /\ Len(sent[c]) = 2

\* C9: every request carries search "2" when normalize is true and "0" when
\* it is false, and the drug argument as name; the first request and the
\* retry of one call are the same.
C9_ModeMapping ==
    \A c \in Calls :
        /\ \A i \in 1..Len(sent[c]) :
              /\ sent[c][i].search = (IF normalize THEN "2" ELSE "0")
              /\ sent[c][i].name = drug[c]
        /\ Len(sent[c]) = 2 => sent[c][1] = sent[c][2]

C9_Witness ==
    \E c \in Calls : Len(sent[c]) = 2 /\ ~normalize /\ sent[c][2].search = "0"

\* C10: every integer of a Found result is non-negative.
C10_FoundIsNonNegative ==
    \A c \in Calls :
        outcome[c].tag = "Found" =>
            \A i \in 1..Len(outcome[c].ids) : outcome[c].ids[i] >= 0

(* ---------------------- decimal text, read independently ---------------- *)

DigitChar(d) == CHOOSE ch \in Digits : DigitVal(ch) = d

\* the decimal digits of a natural number
RECURSIVE NatDigits(_)
NatDigits(n) ==
    IF n < 10 THEN <<DigitChar(n)>>
    ELSE NatDigits(n \div 10) \o <<DigitChar(n % 10)>>

\* the decimal digits of the magnitude of a negative number
RECURSIVE NegDigits(_)
NegDigits(n) ==
    LET t == (n + 9) \div 10
        d == 10 * t - n
    IN  IF t = 0 THEN <<DigitChar(d)>> ELSE NegDigits(t) \o <<DigitChar(d)>>

\* the decimal text of an integer
ToDecimal(n) == IF n < 0 THEN <<"-">> \o NegDigits(n) ELSE NatDigits(n)

RECURSIVE StripZeros(_)
StripZeros(d) == IF Len(d) > 1 /\ Head(d) = "0" THEN StripZeros(Tail(d)) ELSE d

\* the digits of a decimal integer text, without sign and leading zeros
Magnitude(s) == StripZeros(IF Head(s) \in {"+", "-"} THEN Tail(s) ELSE s)

IsNegative(s) == Head(s) = "-" /\ Magnitude(s) # <<"0">>

\* the decimal text of the value a decimal integer text denotes
Canonical(s) == IF IsNegative(s) THEN <<"-">> \o Magnitude(s) ELSE Magnitude(s)

\* a <= b for digit sequences of the same length
RECURSIVE DigitsLeq(_, _)
DigitsLeq(a, b) ==
    IF a = <<>> THEN TRUE
    ELSE IF DigitVal(Head(a)) # DigitVal(Head(b)) THEN DigitVal(Head(a)) < DigitVal(Head(b))
    ELSE DigitsLeq(Tail(a), Tail(b))

MaxMagnitude == <<"2", "1", "4", "7", "4", "8", "3", "6", "4", "7">>

MinMagnitude == <<"2", "1", "4", "7", "4", "8", "3", "6", "4", "8">>

\* the value of the decimal integer text s lies in -2^31 .. 2^31 - 1
InI32Range(s) ==
    LET m == Magnitude(s)
    IN  \/ Len(m) < Len(MaxMagnitude)
        \/ /\ Len(m) = Len(MaxMagnitude)
           /\ DigitsLeq(m, IF IsNegative(s) THEN MinMagnitude ELSE MaxMagnitude)

\* the entries at idGroup.rxnormId, as texts
EntriesOf(doc) ==
    [i \in 1..Len(RxnormIdOf(doc).v.a) |-> RxnormIdOf(doc).v.a[i].s]

\* idGroup.rxnormId is a non-empty array of decimal-integer strings
AllDecimal(doc) ==
    NonEmptyArray(doc) /\ \A i \in 1..Len(EntriesOf(doc)) : IsDecimal(EntriesOf(doc)[i])

\* ... each of them inside the 32-bit signed range
AllInRange(doc) ==
    AllDecimal(doc) /\ \A i \in 1..Len(EntriesOf(doc)) : InI32Range(EntriesOf(doc)[i])

\* o is Found with one integer per entry, the i-th being the value of the
\* i-th entry
MirrorsArray(o, doc) ==
    /\ o.tag = "Found"
    /\ Len(o.ids) = Len(EntriesOf(doc))
    /\ \A i \in 1..Len(o.ids) : ToDecimal(o.ids[i]) = Canonical(EntriesOf(doc)[i])

\* C11 (as stated): a 2xx response whose idGroup.rxnormId is a non-empty
\* array of decimal-integer strings ends the call with Found, the list as
\* long as the array and its i-th element the value of the i-th entry.
C11_DecimalArrayIsFound ==
    \A c \in Calls :
        (Terminated(c) /\ Has2xxJson(c) /\ AllDecimal(Response(c).body.doc))
            => MirrorsArray(outcome[c], Response(c).body.doc)

\* C11 (amended): the same, for arrays whose entries all lie in the 32-bit
\* signed range: order is kept, nothing is sorted, duplicates stay.
C11_InRangeArrayIsFound ==
    \A c \in Calls :
        (Terminated(c) /\ Has2xxJson(c) /\ AllInRange(Response(c).body.doc))
            => MirrorsArray(outcome[c], Response(c).body.doc)

C11_Witness ==
    \E c \in Calls :
        /\ Terminated(c) /\ Has2xxJson(c) /\ AllInRange(Response(c).body.doc)
        /\ outcome[c] = Found(<<1151, 7>>)

C11_WitnessDuplicates ==
    \E c \in Calls :
        /\ Terminated(c) /\ Has2xxJson(c) /\ AllInRange(Response(c).body.doc)
        /\ outcome[c] = Found(<<7, 7>>)

\* what a call running alone ends with, given the results of its attempts
Alone(log) ==
    IF log[1].ok THEN Finish(log[1].res)
    ELSE IF log[2].ok THEN Finish(log[2].res)
    ELSE Panic("send")

\* every call that is over ended as it would have ended alone
EndsAsAlone ==
    \A c \in Calls :
        Terminated(c) =>
            /\ outcome[c] = Alone(net[c])
            /\ pc[c] = PcOf(Alone(net[c]))

\* C12: in every interleaving of the calls on one client, each call ends as
\* it would have ended alone on the results of its own attempts, and no step
\* changes the client's normalize flag.
C12_NoInterference == []EndsAsAlone /\ [][normalize' = normalize]_vars

C12_Witness ==
    \E c1, c2 \in Calls :
        /\ Terminated(c1) /\ Direct(c1)
        /\ Terminated(c2) /\ Retried(c2)
        /\ outcome[c1].tag = "Found" /\ outcome[c1].ids # <<>>
        /\ outcome[c2] = RemoteError

\* C13: a call cancelled while suspended on a send or on the retry delay
\* sends no later request and returns a cancellation error to its caller.
C13_CancelReturnsError ==
    \A c \in Calls :
        pc[c] = "dropped" =>
            /\ Len(sent[c]) <= Len(net[c]) + 1
            /\ outcome[c].tag = "Err"

\* C15: Found and NotFound come only from a 2xx response, and a non-2xx
\* response whose body is text, JSON or not, ends the call with RemoteError:
\* its body is never parsed.
C15_OnlyParsedOn2xx ==
    \A c \in Calls :
        /\ outcome[c].tag \in {"Found", "NotFound"}
              => (HasResponse(c) /\ IsSuccess(Response(c).status))
        /\ (/\ Terminated(c) /\ HasResponse(c)
            /\ ~IsSuccess(Response(c).status)
            /\ Response(c).body.kind \in {"garbage", "json"})
              => (pc[c] = "returned" /\ outcome[c] = RemoteError)

C15_Witness ==
    \E c \in Calls :
        /\ Terminated(c) /\ HasResponse(c)
        /\ ~IsSuccess(Response(c).status)
        /\ Response(c).body = Garbage
        /\ outcome[c] = RemoteError

\* the decimal integer text s denotes a value above 2147483647
AboveI32(s) == IsDecimal(s) /\ ~IsNegative(s) /\ ~InI32Range(s)

\* some entry of the array denotes a value above 2147483647
HasEntryAboveI32(doc) ==
    NonEmptyArray(doc) /\ \E i \in 1..Len(EntriesOf(doc)) : AboveI32(EntriesOf(doc)[i])

\* C16: a response with an entry above 2147483647 never ends the call with
\* a result, and every integer of a Found result is the value of the decimal
\* fragment of the response it was read from, neither wrapped nor truncated.
C16_NoWrappedIdentifier ==
    \A c \in Calls :
        /\ (Terminated(c) /\ Has2xxJson(c) /\ HasEntryAboveI32(Response(c).body.doc))
              => outcome[c].tag \notin {"Found", "NotFound"}
        /\ outcome[c].tag = "Found" =>
              LET frags == Fragments(IdText(Response(c).body.doc))
              IN  /\ Len(outcome[c].ids) = Len(frags)
                  /\ \A i \in 1..Len(frags) :
                        /\ IsDecimal(frags[i])
                        /\ ToDecimal(outcome[c].ids[i]) = Canonical(frags[i])

C16_Witness ==
    \E c \in Calls :
        /\ Terminated(c) /\ Has2xxJson(c)
        /\ EntriesOf(Response(c).body.doc) = << <<"7">>, MinMagnitude >>
        /\ outcome[c] = Panic("parse int")

====
